---- MODULE Spec2Model ----
(***************************************************************************)
(* Riemannian autodiff of t3f (src/t3f/autodiff.py): the invariance check, *)
(* the gauge projection, and the graphs that gradients and                 *)
(* hessian_vector_product build and the session then runs.                 *)
(*                                                                         *)
(* Numbers are exact integers.  A tensor is a record of its shape and its  *)
(* entries in row-major order, which is what tf.reshape leaves unchanged.  *)
(***************************************************************************)
EXTENDS Integers, Sequences, FiniteSets, TLC

VARIABLES
  f_value_1,      \* checker: value of the function on the first representation
  f_value_2,      \* checker: value of the function on the second representation
  assert_op,      \* checker: the op _is_invariant_to_input_transforms returned
  check_run,      \* checker: what running assert_op came to
  advisories,     \* number of overhead warnings printed so far (the print of line 48)
  g_left,         \* gauge projector: the left-orthogonal TT (a sequence of cores)
  g_deltas,       \* gauge projector: raw deltas, one per core
  g_proj_deltas,  \* gauge projector: the result, or <<>>
  call,           \* the gradients / hessian_vector_product call in hand
  graph,          \* the ops the call added to the graph: name -> data and control inputs
  tensors,        \* the values that the ops of the graph compute when they are run
  evaluated,      \* the ops the session has run so far
  status,         \* "idle", "built", "returned", "failed" (session), "raised" (python)
  result,         \* the tangent vector the call produced, or <<>>
  error,          \* the error the call ended with
  calls,          \* number of calls made so far
  debug_calls,    \* number of those made with debug=True
  experiment,     \* the inputs an experiment fixes for its calls
  log             \* outcomes of the finished calls of an experiment, by label

checkerVars == <<f_value_1, f_value_2, assert_op, check_run>>
gaugeVars == <<g_left, g_deltas, g_proj_deltas>>

vars == <<checkerVars, advisories, gaugeVars,
          call, graph, tensors, evaluated, status, result, error, calls, debug_calls,
          experiment, log>>

None == "None"
NoTensors == <<>>
NoError == [error |-> "none", data |-> <<>>]

\* ------------------------------------------------------------------ bounds

\* Function values are k * RelTolInv + j with |k| <= MaxMag, |j| <= MaxOff.
MaxMag == 2
MaxOff == 2
\* Entries of raw deltas lie in -MaxDelta .. MaxDelta.
MaxDelta == 1
\* Warnings counted before the checker stops being re-run.
MaxChecks == 2
\* Calls of gradients / hessian_vector_product in one behaviour.
MaxCalls == 2
\* TT cores of a point x are c * e_i with 1 <= |c| <= MaxCore.
MaxCore == 1

\* ------------------------------------------------------------ tensor algebra

Abs(a) == IF a < 0 THEN -a ELSE a

RECURSIVE SumTo(_, _)
\* f(1) + ... + f(n) for a sequence f
SumTo(f, n) == IF n = 0 THEN 0 ELSE f[n] + SumTo(f, n - 1)

RECURSIVE Prod(_)
Prod(shape) == IF shape = <<>> THEN 1 ELSE Head(shape) * Prod(Tail(shape))

RECURSIVE Entries(_, _)
\* the first n entries of f, as a tuple
Entries(f, n) == IF n = 0 THEN <<>> ELSE Append(Entries(f, n - 1), f[n])

Tensor(shape, data) == [shape |-> shape, data |-> Entries(data, Prod(shape))]

\* tf.reshape(t, shape): same entries, same row-major order
Reshape(t, shape) == Tensor(shape, t.data)

\* tf.reshape(t, (-1, cols)): the row count is inferred
ReshapeRows(t, cols) == Tensor(<<Len(t.data) \div cols, cols>>, t.data)

At(M, i, j) == M.data[(i - 1) * M.shape[2] + j]

\* tf.transpose of a matrix
Transpose(M) ==
  LET r == M.shape[1]
      c == M.shape[2]
  IN  Tensor(<<c, r>>,
             [k \in 1..(r * c) |-> At(M, ((k - 1) % r) + 1, ((k - 1) \div r) + 1)])

\* tf.matmul
MatMul(A, B) ==
  LET r == A.shape[1]
      m == A.shape[2]
      c == B.shape[2]
  IN  Tensor(<<r, c>>,
             [k \in 1..(r * c) |->
                LET i == ((k - 1) \div c) + 1
                    j == ((k - 1) % c) + 1
                IN  SumTo([p \in 1..m |-> At(A, i, p) * At(B, p, j)], m)])

\* elementwise a - b
Minus(A, B) == Tensor(A.shape, [k \in 1..Len(A.data) |-> A.data[k] - B.data[k]])

Identity(n) ==
  Tensor(<<n, n>>,
         [k \in 1..(n * n) |-> IF (k - 1) \div n = (k - 1) % n THEN 1 ELSE 0])

IsZero(M) == \A k \in 1..Len(M.data) : M.data[k] = 0

\* --------------------------------------------------- invariance checker

\* 1e-5 of line 55, as its inverse: rel_diff < 1e-5 iff rel_diff * RelTolInv < 1
RelTolInv == 100000

\* tf.abs((f1 - f2) / f1) of line 51.  A float division by zero gives nan (0/0)
\* or inf (x/0), neither of which is a finite quotient.
RelDiff(f1, f2) ==
  IF f1 = 0
    THEN (IF f2 = 0 THEN [kind |-> "nan"] ELSE [kind |-> "inf"])
    ELSE [kind |-> "finite", num |-> Abs(f1 - f2), den |-> Abs(f1)]

\* A mutant of LessThanTol: the comparison is <= instead of <.
LessThanTolInclusive(rd) ==
  /\ rd.kind = "finite"
  /\ rd.num <= rd.den \div RelTolInv

\* rel_diff < 1e-5 of line 55; every comparison with nan is false, inf < x is false.
\* For integers num >= 0 and den >= 1, num / den < 1 / RelTolInv is
\* num * RelTolInv <= den - 1, that is num <= (den - 1) \div RelTolInv, which
\* stays within 32-bit integers.
LessThanTol(rd) ==
  /\ rd.kind = "finite"
  /\ rd.num <= (rd.den - 1) \div RelTolInv

err_msg == "The function passed to Riemannian autodiff returns different values for two different versions of the same tensor. The function values are"

\* The op that tf.Assert(rel_diff < 1e-5, [err_msg, f_value_1, f_value_2]) builds.
AssertOp(f1, f2) ==
  [condition |-> LessThanTol(RelDiff(f1, f2)), data |-> <<err_msg, f1, f2>>]

\* Running an assert op: it passes, or it raises InvalidArgumentError with its data.
RunAssertOp(op) ==
  IF op.condition
    THEN NoError
    ELSE [error |-> "InvalidArgumentError", data |-> op.data]

\* A mutant of _is_invariant_to_input_transforms: the warning is printed once
\* per process instead of once per call.
WarnOnlyOnce(f1, f2, printed) ==
  [printed |-> IF printed = 0 THEN 1 ELSE printed, assert_op |-> AssertOp(f1, f2)]

\* _is_invariant_to_input_transforms(f_value_1, f_value_2): prints the warning
\* (printed counts the warnings so far) and returns the assert op.
_is_invariant_to_input_transforms(f1, f2, printed) ==
  [printed |-> printed + 1, assert_op |-> AssertOp(f1, f2)]

\* ------------------------------------------------------- gauge projector

\* A mutant of ProjectOut: the subtraction is dropped, which keeps the component
\* in q's column space instead of removing it.
ProjectOnto(q, proj_delta) ==
  MatMul(q, MatMul(Transpose(q), proj_delta))

\* proj_delta -= tf.matmul(q, tf.matmul(tf.transpose(q), proj_delta)), line 22
ProjectOut(q, proj_delta) ==
  Minus(proj_delta, MatMul(q, MatMul(Transpose(q), proj_delta)))

Last(s) == s[Len(s)]

\* One pass of the loop body of _enforce_gauge_conditions for core i (1-based).
GaugeCore(deltas, left, i) ==
  LET r2 == Last(left[i].shape)
      q  == ReshapeRows(left[i], r2)
  IN  IF i < Len(left)
        THEN Reshape(ProjectOut(q, ReshapeRows(deltas[i], r2)), left[i].shape)
        ELSE deltas[i]

_enforce_gauge_conditions(deltas, left) ==
  [i \in 1..Len(left) |-> GaugeCore(deltas, left, i)]

\* ------------------------------------------------------- collaborators
\* t3f.decompositions and t3f.riemannian are not part of autodiff.py; they are
\* modelled from their contracts, for TT tensors of two cores and TT-rank 1
\* whose cores are integer multiples of unit vectors (so that the
\* orthogonal factors are integer too).

Scale(t, c) == Tensor(t.shape, [k \in 1..Len(t.data) |-> t.data[k] * c])

DivBy(t, c) == Tensor(t.shape, [k \in 1..Len(t.data) |-> t.data[k] \div c])

Plus(A, B) == Tensor(A.shape, [k \in 1..Len(A.data) |-> A.data[k] + B.data[k]])

ZerosLike(t) == Tensor(t.shape, [k \in 1..Len(t.data) |-> 0])

OnesLike(t) == Tensor(t.shape, [k \in 1..Len(t.data) |-> 1])

\* tf.reduce_sum
ReduceSum(t) == SumTo(t.data, Len(t.data))

\* sum of the elementwise product
Inner(A, B) == SumTo([k \in 1..Len(A.data) |-> A.data[k] * B.data[k]], Len(A.data))

\* Frobenius norm of a tensor whose squared norm is a perfect square
Norm(t) == CHOOSE k \in 0..Inner(t, t) : k * k = Inner(t, t)

\* orthogonalize_tt_cores(tt, left_to_right): the same tensor, with the first
\* core orthonormal (left to right) or the last one (right to left); the
\* triangular factor, here the norm, moves into the neighbouring core.
orthogonalize_tt_cores(tt, left_to_right) ==
  IF left_to_right
    THEN <<DivBy(tt[1], Norm(tt[1])), Scale(tt[2], Norm(tt[1]))>>
    ELSE <<Scale(tt[1], Norm(tt[2])), DivBy(tt[2], Norm(tt[2]))>>

\* tf.concat along the last axis of two cores with equal leading dimensions
ConcatLast(A, B) ==
  LET ra == Last(A.shape)
      rb == Last(B.shape)
      rows == Len(A.data) \div ra
  IN  Tensor([A.shape EXCEPT ![Len(A.shape)] = ra + rb],
             [k \in 1..(rows * (ra + rb)) |->
                LET i == (k - 1) \div (ra + rb)
                    j == ((k - 1) % (ra + rb)) + 1
                IN  IF j <= ra THEN A.data[i * ra + j] ELSE B.data[i * rb + (j - ra)]])

\* tf.concat along the first axis
ConcatFirst(A, B) ==
  Tensor([A.shape EXCEPT ![1] = A.shape[1] + B.shape[1]], A.data \o B.data)

\* deltas_to_tangent_space(deltas, x, left, right): the TT tensor of doubled rank
\* with cores [delta_1 left_1] and [right_2 ; delta_2]
deltas_to_tangent_space(ds, xx, lf, rt) ==
  <<ConcatLast(ds[1], lf[1]), ConcatFirst(rt[2], ds[2])>>

\* the first cols columns of a core (slice along the last axis)
FirstCols(A, cols) ==
  LET r == Last(A.shape)
      rows == Len(A.data) \div r
  IN  Tensor([A.shape EXCEPT ![Len(A.shape)] = cols],
             [k \in 1..(rows * cols) |-> A.data[((k - 1) \div cols) * r + ((k - 1) % cols) + 1]])

\* all but the first rws slices of a core along the first axis
AfterRows(A, rws) ==
  LET per == Len(A.data) \div A.shape[1]
  IN  Tensor([A.shape EXCEPT ![1] = A.shape[1] - rws],
             [k \in 1..(Len(A.data) - rws * per) |-> A.data[rws * per + k]])

\* tangent_space_to_deltas(tt): the delta blocks of a tangent vector's cores
tangent_space_to_deltas(tt) ==
  LET r == Last(tt[1].shape) \div 2
  IN  <<FirstCols(tt[1], r), AfterRows(tt[2], r)>>

\* The full n1 x n2 array a two-core TT tensor stands for.
Full(tt) ==
  MatMul(ReshapeRows(tt[1], Last(tt[1].shape)),
         Reshape(tt[2], <<tt[2].shape[1], Len(tt[2].data) \div tt[2].shape[1]>>))

\* The matrices of left's first core (n1 x r) and right's last core (r x n2).
LeftMat(lf) == ReshapeRows(lf[1], Last(lf[1].shape))
RightMat(rt) == Reshape(rt[2], <<rt[2].shape[1], Len(rt[2].data) \div rt[2].shape[1]>>)

\* The chain rule through deltas_to_tangent_space: X = d1 * R + L * d2, so a
\* gradient G with respect to X is G * R^T with respect to d1 and L^T * G
\* with respect to d2.
Pullback(G, lf, rt) ==
  <<Reshape(MatMul(G, Transpose(RightMat(rt))), lf[1].shape),
    Reshape(MatMul(Transpose(LeftMat(lf)), G), rt[2].shape)>>

\* riemannian.project(what, where): the tangent vector at x nearest to the full
\* array Z, with its first delta in the gauge  L^T * d1 = 0.
project(Z, xx) ==
  LET lf == orthogonalize_tt_cores(xx, TRUE)
      rt == orthogonalize_tt_cores(lf, FALSE)
      raw == Pullback(Z, lf, rt)
      L == LeftMat(lf)
      d1 == Minus(ReshapeRows(raw[1], Last(lf[1].shape)),
                  MatMul(L, MatMul(Transpose(L), ReshapeRows(raw[1], Last(lf[1].shape)))))
  IN  deltas_to_tangent_space(<<Reshape(d1, lf[1].shape), raw[2]>>, xx, lf, rt)

\* ----------------------------------------------------- the functions
\* func is the caller's.  Three are modelled:
\*   half_sq_inner  0.5 * flat_inner(x, t)**2         (the example of line 76)
\*   half_sq_norm   0.5 * frobenius_norm_squared(x)
\*   core_probe     0.5 * (sum of the raw entries of all TT-cores)**2,
\*                  which reads the representation, not the tensor
\* Function values are counted in halves, so that they are integers; the
\* relative difference of two values does not depend on the unit.

IsInvariantFunc(func) == func.kind \in {"half_sq_inner", "half_sq_norm"}

SumOfCores(tt) == SumTo([i \in 1..Len(tt) |-> ReduceSum(tt[i])], Len(tt))

\* func(tt), in halves
FuncValue(func, tt) ==
  CASE func.kind = "half_sq_inner" -> Inner(Full(tt), func.t) * Inner(Full(tt), func.t)
    [] func.kind = "half_sq_norm"  -> Inner(Full(tt), Full(tt))
    [] func.kind = "core_probe"    -> SumOfCores(tt) * SumOfCores(tt)

\* The gradient of an invariant func with respect to the full array, at X.
AmbientGrad(func, X) ==
  CASE func.kind = "half_sq_inner" -> Scale(func.t, Inner(X, func.t))
    [] func.kind = "half_sq_norm"  -> X

\* The Hessian of an invariant func applied to the full array W.
AmbientHess(func, W) ==
  CASE func.kind = "half_sq_inner" -> Scale(func.t, Inner(W, func.t))
    [] func.kind = "half_sq_norm"  -> W

\* tf.gradients(func(deltas_to_tangent_space(ds, x, left, right)), ds)
Differentiate(func, ds, xx, lf, rt) ==
  LET tt == deltas_to_tangent_space(ds, xx, lf, rt)
  IN  IF IsInvariantFunc(func)
        THEN Pullback(AmbientGrad(func, Full(tt)), lf, rt)
        ELSE <<Scale(OnesLike(ds[1]), SumOfCores(tt)), Scale(OnesLike(ds[2]), SumOfCores(tt))>>

\* tf.gradients(grad_times_vec, ds), where grad_times_vec is
\* add_n([reduce_sum(a * b) for a, b in zip(cores_grad, vec_deltas)]) and
\* cores_grad is Differentiate(func, ds, ...): the derivative, with respect to ds,
\* of the first derivative along vec_deltas.
DifferentiateTwice(func, ds, vec_deltas, xx, lf, rt) ==
  IF IsInvariantFunc(func)
    THEN Pullback(AmbientHess(func, Full(deltas_to_tangent_space(vec_deltas, xx, lf, rt))),
                  lf, rt)
    ELSE <<Scale(OnesLike(ds[1]), ReduceSum(vec_deltas[1]) + ReduceSum(vec_deltas[2])),
           Scale(OnesLike(ds[2]), ReduceSum(vec_deltas[1]) + ReduceSum(vec_deltas[2]))>>

\* ------------------------------------------------- the tensors of a call
\* A call is [op, func, x, vector, debug, label]; label names it in an experiment.

NoCall ==
  [op |-> "none", func |-> [kind |-> "none"], x |-> <<>>, vector |-> <<>>,
   debug |-> FALSE, label |-> "none"]

NoTensorValues == [function_value |-> 0, function_value_right |-> 0, result |-> <<>>]

\* lines 99-100 and 161-162: [right.tt_cores[0]] + zeros for the other cores
InitialDeltas(right) == [i \in 1..Len(right) |-> IF i = 1 THEN right[1] ELSE ZerosLike(right[i])]

\* The tensors that gradients builds, lines 97-110, by the values they take:
\* the two function values that the assert compares and the returned tensor.
GradientsTensors(func, x) ==
  LET left == orthogonalize_tt_cores(x, TRUE)
      right == orthogonalize_tt_cores(left, FALSE)
      deltas == InitialDeltas(right)
      x_projection == deltas_to_tangent_space(deltas, x, left, right)
      function_value == FuncValue(func, x_projection)
      cores_grad == Differentiate(func, deltas, x, left, right)
      proj == _enforce_gauge_conditions(cores_grad, left)
  IN  [function_value |-> function_value,
       function_value_right |-> FuncValue(func, right),
       result |-> deltas_to_tangent_space(proj, x, left, right)]

\* A mutant of SecondCoresGrad: the second pass differentiates function_value
\* again instead of grad_times_vec.
SecondCoresGradOfValue(func, deltas, vec_deltas, x, left, right) ==
  Differentiate(func, deltas, x, left, right)

\* lines 171-175: cores_grad, the products with vec_deltas, their sum
\* grad_times_vec, and its gradient
SecondCoresGrad(func, deltas, vec_deltas, x, left, right) ==
  DifferentiateTwice(func, deltas, vec_deltas, x, left, right)

\* The tensors that hessian_vector_product builds, lines 159-177.
HessianTensors(func, x, vector) ==
  LET left == orthogonalize_tt_cores(x, TRUE)
      right == orthogonalize_tt_cores(left, FALSE)
      deltas == InitialDeltas(right)
      x_projection == deltas_to_tangent_space(deltas, x, left, right)
      function_value == FuncValue(func, x_projection)
      vector_projected == project(vector, x)
      vec_deltas == tangent_space_to_deltas(vector_projected)
      second_cores_grad == SecondCoresGrad(func, deltas, vec_deltas, x, left, right)
      final_deltas == _enforce_gauge_conditions(second_cores_grad, left)
  IN  [function_value |-> function_value,
       function_value_right |-> FuncValue(func, right),
       result |-> deltas_to_tangent_space(final_deltas, x, left, right)]

TensorsOf(c) ==
  IF c.op = "gradients"
    THEN GradientsTensors(c.func, c.x)
    ELSE HessianTensors(c.func, c.x, c.vector)

\* ------------------------------------------------------ the graph of a call
\* An op is known by the name of the Python variable that holds it.  Each has
\* data inputs and control inputs; the session runs an op only after both.

Op(inputs, control) == [inputs |-> inputs, control |-> control]

\* tf.control_dependencies(control_inputs), lines 107 and 169: every element is
\* converted to a graph element, and None is none ("Can not convert a NoneType
\* into a Tensor or Operation"): the context cannot even be entered.
ControlDependencies(control_inputs) ==
  IF \E i \in 1..Len(control_inputs) : control_inputs[i] = None
    THEN [raised |-> TRUE, control |-> {}]
    ELSE [raised |-> FALSE, control |-> {control_inputs[i] : i \in 1..Len(control_inputs)}]

\* lines 103-106 and 165-168: the name of the assert op, or None
AssertOpOf(debug) == IF debug THEN "assert_op" ELSE None

\* The ops of lines 97-102 (159-164), which both functions build first.
CommonOps ==
  [n \in {"left", "right", "deltas", "x_projection", "function_value"} |->
     CASE n = "left"           -> Op({}, {})
       [] n = "right"          -> Op({"left"}, {})
       [] n = "deltas"         -> Op({"right"}, {})
       [] n = "x_projection"   -> Op({"deltas", "left", "right"}, {})
       [] n = "function_value" -> Op({"x_projection"}, {})]

\* The ops of lines 104 (166): func(right) and the assert on the two values.
DebugOps ==
  [n \in {"function_value_right", "assert_op"} |->
     CASE n = "function_value_right" -> Op({"right"}, {})
       [] n = "assert_op"            -> Op({"function_value", "function_value_right"}, {})]

\* A mutant of GradientsOps: tf.gradients is called outside the
\* control_dependencies block.
GradientsOpsUnordered(control) ==
  [n \in {"cores_grad", "proj_deltas", "result"} |->
     CASE n = "cores_grad"  -> Op({"function_value", "deltas"}, {})
       [] n = "proj_deltas" -> Op({"cores_grad", "left"}, {})
       [] n = "result"      -> Op({"proj_deltas", "left", "right"}, {})]

\* The ops of lines 107-110 of gradients; control is what the
\* control_dependencies block of line 107 adds to the ops made inside it.
GradientsOps(control) ==
  [n \in {"cores_grad", "proj_deltas", "result"} |->
     CASE n = "cores_grad"  -> Op({"function_value", "deltas"}, control)
       [] n = "proj_deltas" -> Op({"cores_grad", "left"}, {})
       [] n = "result"      -> Op({"proj_deltas", "left", "right"}, {})]

\* The ops of lines 169-177 of hessian_vector_product; only
\* riemannian.project is called inside the control_dependencies block.
HessianOps(control) ==
  [n \in {"vector_projected", "cores_grad", "vec_deltas", "grad_times_vec",
          "second_cores_grad", "final_deltas", "result"} |->
     CASE n = "vector_projected"  -> Op({}, control)
       [] n = "cores_grad"        -> Op({"function_value", "deltas"}, {})
       [] n = "vec_deltas"        -> Op({"vector_projected"}, {})
       [] n = "grad_times_vec"    -> Op({"cores_grad", "vec_deltas"}, {})
       [] n = "second_cores_grad" -> Op({"grad_times_vec", "deltas"}, {})
       [] n = "final_deltas"      -> Op({"second_cores_grad", "left"}, {})
       [] n = "result"            -> Op({"final_deltas", "left", "right"}, {})]

\* Python runs the body of gradients or hessian_vector_product for call c
\* (printed: the warnings printed before the call).  What it leaves: the ops
\* added to the graph, the values they will take, the warnings printed, and
\* the error raised on the way, if any.
BuildGraph(c, printed) ==
  LET values  == TensorsOf(c)
      checked == IF c.debug
                   THEN _is_invariant_to_input_transforms(values.function_value,
                                                          values.function_value_right, printed)
                   ELSE [printed |-> printed, assert_op |-> None]
      first   == IF c.debug THEN CommonOps @@ DebugOps ELSE CommonOps
      entered == ControlDependencies(<<AssertOpOf(c.debug)>>)
  IN  IF entered.raised
        THEN [ops |-> first, tensors |-> [values EXCEPT !.result = <<>>],
              printed |-> checked.printed,
              error |-> [error |-> "TypeError", data |-> <<>>]]
        ELSE [ops |-> first @@ (IF c.op = "gradients"
                                  THEN GradientsOps(entered.control)
                                  ELSE HessianOps(entered.control)),
              tensors |-> values,
              printed |-> checked.printed,
              error |-> NoError]

RECURSIVE Ancestors(_, _, _)
\* The ops that the ops of todo need, directly or not (seen: those found so far).
Ancestors(g, todo, seen) ==
  IF todo \subseteq seen
    THEN seen
    ELSE LET n == CHOOSE m \in todo \ seen : TRUE
         IN  Ancestors(g, (todo \ {n}) \cup g[n].inputs \cup g[n].control, seen \cup {n})

\* The assert op of a graph with these tensor values.
AssertOpIn(values) == AssertOp(values.function_value, values.function_value_right)

\* What session.run of the returned tensor comes to: it runs the ops the result
\* needs, and an assert among them that does not hold fails the run.
SessionOutcome(g, values) ==
  IF "assert_op" \in Ancestors(g, {"result"}, {}) /\ ~AssertOpIn(values).condition
    THEN [status |-> "failed", result |-> NoTensors, error |-> RunAssertOp(AssertOpIn(values))]
    ELSE [status |-> "returned", result |-> values.result, error |-> NoError]

\* ---------------------------------------------------------------- actions

Outcome == [status |-> status', result |-> result', error |-> error']

\* A finished call of an experiment is logged under its label.
Logged(c) ==
  IF c.label = "none" \/ status' = "built"
    THEN UNCHANGED log
    ELSE log' = (c.label :> Outcome) @@ log

\* Python runs gradients or hessian_vector_product to its return or its raise.
StartCall(c) ==
  /\ status # "built"
  /\ \E b \in {BuildGraph(c, advisories)} :
       /\ call' = c
       /\ graph' = b.ops
       /\ tensors' = b.tensors
       /\ advisories' = b.printed
       /\ error' = b.error
       /\ status' = IF b.error = NoError THEN "built" ELSE "raised"
  /\ evaluated' = {}
  /\ result' = NoTensors
  /\ calls' = calls + 1
  /\ debug_calls' = debug_calls + (IF c.debug THEN 1 ELSE 0)
  /\ UNCHANGED <<checkerVars, gaugeVars, experiment>>
  /\ Logged(c)

gradients(func, x, debug, label) ==
  StartCall([op |-> "gradients", func |-> func, x |-> x, vector |-> <<>>,
             debug |-> debug, label |-> label])

hessian_vector_product(func, x, vector, debug, label) ==
  StartCall([op |-> "hessian_vector_product", func |-> func, x |-> x, vector |-> vector,
             debug |-> debug, label |-> label])

Ready(n) ==
  /\ status = "built"
  /\ n \in DOMAIN graph
  /\ n \notin evaluated
  /\ graph[n].inputs \cup graph[n].control \subseteq evaluated

Holds(n) == n = "assert_op" => AssertOpIn(tensors).condition

\* The session runs one op whose inputs are there (an assert that holds included).
RunOp(n) ==
  /\ Ready(n)
  /\ Holds(n)
  /\ evaluated' = evaluated \cup {n}
  /\ UNCHANGED <<checkerVars, advisories, gaugeVars,
                 call, graph, tensors, status, result, error, calls, debug_calls,
                 experiment, log>>

\* The session runs the assert op and it does not hold: the run ends with its error.
AssertFails ==
  /\ Ready("assert_op")
  /\ ~Holds("assert_op")
  /\ status' = "failed"
  /\ error' = RunAssertOp(AssertOpIn(tensors))
  /\ UNCHANGED <<checkerVars, advisories, gaugeVars,
                 call, graph, tensors, evaluated, result, calls, debug_calls, experiment>>
  /\ Logged(call)

\* The session has run the op of the result: the caller gets the tangent vector.
Return ==
  /\ status = "built"
  /\ "result" \in evaluated
  /\ status' = "returned"
  /\ result' = tensors.result
  /\ UNCHANGED <<checkerVars, advisories, gaugeVars,
                 call, graph, tensors, evaluated, error, calls, debug_calls, experiment>>
  /\ Logged(call)

\* The whole session.run in one step (the experiments do not look inside it).
SessionRun ==
  /\ status = "built"
  /\ \E o \in {SessionOutcome(graph, tensors)} :
       /\ status' = o.status
       /\ result' = o.result
       /\ error' = o.error
  /\ evaluated' = IF status' = "returned" THEN DOMAIN graph ELSE evaluated
  /\ UNCHANGED <<checkerVars, advisories, gaugeVars,
                 call, graph, tensors, calls, debug_calls, experiment>>
  /\ Logged(call)

\* ----------------------------------------------------------------- inputs

ModeSizes == <<2, 2>>

\* the tensor of the given shape with value c at flat position p and 0 elsewhere
Unit(shape, p, c) == Tensor(shape, [k \in 1..Prod(shape) |-> IF k = p THEN c ELSE 0])

NonZero(m) == (-m..m) \ {0}

\* The points x: TT tensors of rank 1 with cores c * e_i.
XPoints ==
  { <<Unit(<<1, ModeSizes[1], 1>>, i, c1), Unit(<<1, ModeSizes[2], 1>>, j, c2)>> :
      <<i, j, c1, c2>> \in (1..ModeSizes[1]) \X (1..ModeSizes[2])
                            \X NonZero(MaxCore) \X NonZero(MaxCore) }

\* Full arrays of the shape of x: the unit arrays and the array of ones.
UnitArrays == { Unit(ModeSizes, p, 1) : p \in 1..Prod(ModeSizes) }
Arrays == UnitArrays \cup { OnesLike(Unit(ModeSizes, 1, 1)) }

Funcs ==
  { [kind |-> "half_sq_inner", t |-> t] : t \in Arrays }
    \cup { [kind |-> k, t |-> ZerosLike(Unit(ModeSizes, 1, 1))] : k \in {"half_sq_norm", "core_probe"} }

Vectors == { Unit(ModeSizes, 1, 1), OnesLike(Unit(ModeSizes, 1, 1)) }

\* An experiment: the function and the point that a program differentiates, and
\* for the linearity experiment the scalars and vectors it combines.
Experiment(func, xx, a, b, v1, v2) ==
  [func |-> func, x |-> xx, a |-> a, b |-> b, v1 |-> v1, v2 |-> v2]

ZeroArray == ZerosLike(Unit(ModeSizes, 1, 1))

\* The experiment of a behaviour that makes no call.
NoExperiment == Experiment([kind |-> "none", t |-> ZeroArray], <<>>, 0, 0, ZeroArray, ZeroArray)

InitChecker ==
  /\ f_value_1 = 0
  /\ f_value_2 = 0
  /\ assert_op = [condition |-> TRUE, data |-> <<>>]
  /\ check_run = [error |-> "not run", data |-> <<>>]

InitGauge ==
  /\ g_left = <<>>
  /\ g_deltas = <<>>
  /\ g_proj_deltas = <<>>

InitCalls ==
  /\ call = NoCall
  /\ graph = <<>>
  /\ tensors = NoTensorValues
  /\ evaluated = {}
  /\ status = "idle"
  /\ result = NoTensors
  /\ error = NoError
  /\ calls = 0
  /\ debug_calls = 0
  /\ advisories = 0
  /\ log = <<>>

\* ------------------- Spec: any sequence of calls on a function and a point

Init ==
  /\ InitChecker
  /\ InitGauge
  /\ InitCalls
  /\ experiment \in { Experiment(func, xx, 0, 0, ZeroArray, ZeroArray) :
                         func \in Funcs, xx \in XPoints }

CallGradients ==
  \E debug \in BOOLEAN :
     calls < MaxCalls /\ gradients(experiment.func, experiment.x, debug, "none")

CallHessianVectorProduct ==
  \E vector \in Vectors, debug \in BOOLEAN :
     calls < MaxCalls
       /\ hessian_vector_product(experiment.func, experiment.x, vector, debug, "none")

Run == \E n \in DOMAIN graph : RunOp(n)

Next ==
  \/ CallGradients
  \/ CallHessianVectorProduct
  \/ Run
  \/ AssertFails
  \/ Return

Spec == Init /\ [][Next]_vars

\* ------------------------- SpecCheck: the invariance checker on two values

\* Values around the multiples of 1 / 1e-5, where the relative difference of
\* neighbours is at, below and above the tolerance; and zero.
Values ==
  { sg * (k * RelTolInv + j) : <<sg, k, j>> \in {-1, 1} \X (0..MaxMag) \X (-MaxOff..MaxOff) }

InitCheck ==
  /\ InitGauge
  /\ InitCalls
  /\ experiment = NoExperiment
  /\ f_value_1 \in Values
  /\ f_value_2 \in Values
  /\ assert_op = [condition |-> TRUE, data |-> <<>>]
  /\ check_run = [error |-> "not run", data |-> <<>>]

\* Python calls _is_invariant_to_input_transforms(f_value_1, f_value_2).
BuildCheck ==
  /\ advisories < MaxChecks
  /\ LET r == _is_invariant_to_input_transforms(f_value_1, f_value_2, advisories)
     IN  /\ assert_op' = r.assert_op
         /\ advisories' = r.printed
  /\ check_run' = [error |-> "not run", data |-> <<>>]
  /\ UNCHANGED <<f_value_1, f_value_2, gaugeVars,
                 call, graph, tensors, evaluated, status, result, error, calls, debug_calls,
                 experiment, log>>

\* The session runs the assert op.
RunCheck ==
  /\ assert_op.data # <<>>
  /\ check_run.error = "not run"
  /\ check_run' = RunAssertOp(assert_op)
  /\ UNCHANGED <<f_value_1, f_value_2, assert_op, advisories, gaugeVars,
                 call, graph, tensors, evaluated, status, result, error, calls, debug_calls,
                 experiment, log>>

NextCheck == BuildCheck \/ RunCheck

SpecCheck == InitCheck /\ [][NextCheck]_vars

\* --------------------------------- SpecGauge: the gauge projector on deltas

\* TT shapes: two and three cores of rank 1, a TT-matrix, and a first core of
\* rank 2.
GaugeShapes ==
  { << <<1, 2, 1>>, <<1, 2, 1>> >>,
    << <<1, 3, 1>>, <<1, 2, 1>> >>,
    << <<1, 2, 1>>, <<1, 2, 1>>, <<1, 2, 1>> >>,
    << <<1, 2, 2, 1>>, <<1, 1, 1, 1>> >>,
    << <<1, 3, 2>>, <<2, 1, 1>> >> }

\* Q^T * Q = I for the core reshaped to (-1, r2)
IsLeftOrthogonal(core) ==
  LET q == ReshapeRows(core, Last(core.shape))
  IN  MatMul(Transpose(q), q) = Identity(Last(core.shape))

\* the left-orthogonal cores of a shape with entries -1, 0, 1
OrthogonalCores(shape) ==
  { core \in { Tensor(shape, d) : d \in [1..Prod(shape) -> {-1, 0, 1}] } :
      IsLeftOrthogonal(core) }

\* the left-orthogonal TT tensors of a TT shape; the last core is free, and of ones
LeftTTs(shapes) ==
  { lf \in [1..Len(shapes) ->
              UNION { OrthogonalCores(shapes[i]) : i \in 1..(Len(shapes) - 1) }
                \cup { OnesLike(Unit(Last(shapes), 1, 1)) }] :
      \A i \in 1..Len(shapes) :
         /\ lf[i].shape = shapes[i]
         /\ i < Len(shapes) => IsLeftOrthogonal(lf[i])
         /\ i = Len(shapes) => lf[i] = OnesLike(Unit(Last(shapes), 1, 1)) }

\* the tensors of a shape with at most two entries that are not 0, in -m .. m
PairTensors(shape, m) ==
  { Tensor(shape, [k \in 1..Prod(shape) |-> IF k = p THEN a ELSE IF k = q THEN b ELSE 0]) :
      <<p, q, a, b>> \in (1..Prod(shape)) \X (1..Prod(shape)) \X (-m..m) \X (-m..m) }

RawDeltas(shapes) ==
  { ds \in [1..Len(shapes) -> UNION { PairTensors(shapes[i], MaxDelta) : i \in 1..Len(shapes) }] :
      \A i \in 1..Len(shapes) : ds[i].shape = shapes[i] }

InitGaugeInputs ==
  /\ InitChecker
  /\ InitCalls
  /\ experiment = NoExperiment
  /\ \E shapes \in GaugeShapes :
       /\ g_left \in LeftTTs(shapes)
       /\ g_deltas \in RawDeltas(shapes)
  /\ g_proj_deltas = <<>>

\* Python calls _enforce_gauge_conditions(deltas, left).
EnforceGauge ==
  /\ g_proj_deltas = <<>>
  /\ g_proj_deltas' = _enforce_gauge_conditions(g_deltas, g_left)
  /\ UNCHANGED <<checkerVars, advisories, g_left, g_deltas,
                 call, graph, tensors, evaluated, status, result, error, calls, debug_calls,
                 experiment, log>>

NextGauge == EnforceGauge

SpecGauge == InitGaugeInputs /\ [][NextGauge]_vars

\* ------------- SpecEq: gradients with and without debug, on the same inputs

InitEq == Init

GradientsOnce ==
  \E debug \in BOOLEAN :
     LET label == IF debug THEN "debug" ELSE "nodebug"
     IN  /\ label \notin DOMAIN log
         /\ gradients(experiment.func, experiment.x, debug, label)

NextEq ==
  \/ GradientsOnce
  \/ Run
  \/ AssertFails
  \/ Return

SpecEq == InitEq /\ [][NextEq]_vars

\* ------- SpecLin: hessian_vector_product on v1, on v2 and on a*v1 + b*v2

\* The scalars a and b lie in -1 .. MaxScalar.
MaxScalar == 1

Scalars == -1..MaxScalar

\* The points of the linearity experiment: the second core is a unit vector.
LinPoints == { xx \in XPoints : ReduceSum(xx[2]) = 1 }

InitLin ==
  /\ InitChecker
  /\ InitGauge
  /\ InitCalls
  /\ experiment \in { Experiment(func, xx, a, b, v1, v2) :
                         <<func, xx, a, b, v1, v2>> \in
                           Funcs \X LinPoints \X Scalars \X Scalars \X UnitArrays \X Vectors }

Combination(e) == Plus(Scale(e.v1, e.a), Scale(e.v2, e.b))

\* The three calls, in this order, with debug left at its default.
HessianOnVectors ==
  \E label \in {"v1", "v2", "combination"} :
     /\ label \notin DOMAIN log
     /\ label = "v2" => "v1" \in DOMAIN log
     /\ label = "combination" => "v2" \in DOMAIN log
     /\ hessian_vector_product(experiment.func, experiment.x,
                               CASE label = "v1" -> experiment.v1
                                 [] label = "v2" -> experiment.v2
                                 [] label = "combination" -> Combination(experiment),
                               TRUE, label)

NextLin ==
  \/ HessianOnVectors
  \/ SessionRun

SpecLin == InitLin /\ [][NextLin]_vars

\* ------------------------------------------------------------- properties

Finished == status \in {"returned", "failed", "raised"}

\* ---- the invariance checker (SpecCheck)

CheckRan == check_run.error # "not run"

CheckFailed == check_run.error = "InvalidArgumentError"

\* |v1 - v2| / |v1| > 1e-5, for v1 # 0.  A difference above MaxMag is above
\* the tolerance for every value in range; below it the product fits.
RelDiffExceedsTol(v1, v2) ==
  Abs(v1 - v2) > MaxMag \/ Abs(v1 - v2) * RelTolInv > Abs(v1)

\* |v1 - v2| / |v1| >= 1e-5, for v1 # 0
RelDiffAtLeastTol(v1, v2) ==
  Abs(v1 - v2) > MaxMag \/ Abs(v1 - v2) * RelTolInv >= Abs(v1)

CarriesBothValues ==
  /\ Len(check_run.data) = 3
  /\ check_run.data[2] = f_value_1
  /\ check_run.data[3] = f_value_2

\* C1, as stated: for v1 # 0 the checker fails exactly when the relative
\* difference is greater than 1e-5 (so it passes at exactly 1e-5), and the
\* failure carries both values.
C1_FailsOnlyAboveTolerance ==
  (CheckRan /\ f_value_1 # 0) =>
     /\ CheckFailed <=> RelDiffExceedsTol(f_value_1, f_value_2)
     /\ CheckFailed => CarriesBothValues

\* C1, amended: for v1 # 0 the checker passes exactly when the relative
\* difference is strictly below 1e-5; it fails, carrying both values, when the
\* relative difference is 1e-5 or more.
C1_PassesOnlyBelowTolerance ==
  (CheckRan /\ f_value_1 # 0) =>
     /\ CheckFailed <=> RelDiffAtLeastTol(f_value_1, f_value_2)
     /\ CheckFailed => CarriesBothValues

\* The checker ran on a pair whose relative difference is exactly 1e-5, and failed.
C1_FailedAtTolerance ==
  /\ CheckRan
  /\ f_value_1 # 0
  /\ Abs(f_value_1 - f_value_2) <= MaxMag
  /\ Abs(f_value_1 - f_value_2) * RelTolInv = Abs(f_value_1)
  /\ CheckFailed
  /\ CarriesBothValues

\* ---- calls of gradients and hessian_vector_product (Spec)

\* C2: when func gives the same value v on x_projection and on right (v = 0
\* included), gradients with debug=True does not end in the invariance
\* failure: it returns a tangent vector.
C2_EqualValuesPassTheCheck ==
  ( /\ call.op = "gradients"
    /\ call.debug
    /\ tensors.function_value = tensors.function_value_right
    /\ Finished )
  => (status = "returned" /\ result # NoTensors)

\* C3: a call with debug=False builds no check, raises nothing and returns a
\* tangent vector, whatever func is.
C3_DebugOffReturns ==
  (call.op # "none" /\ ~call.debug) =>
     /\ "assert_op" \notin DOMAIN graph
     /\ "function_value_right" \notin DOMAIN graph
     /\ status # "raised"
     /\ Finished => (status = "returned" /\ result # NoTensors)

\* C4: in gradients with debug=True the session never has the result of
\* tf.gradients before it has run the assert, and a run the assert fails has
\* produced no gradient, no gauge-projected deltas and no tangent vector.
C4_AssertBeforeGradient ==
  (call.op = "gradients" /\ call.debug) =>
     /\ "cores_grad" \in evaluated => "assert_op" \in evaluated
     /\ status = "failed" =>
          /\ evaluated \cap {"cores_grad", "proj_deltas", "result"} = {}
          /\ result = NoTensors

\* gradients with debug=True on the probe function: the assert was run, it
\* failed, and it ended the run.
C4_FailedBeforeGradient ==
  /\ call.op = "gradients"
  /\ call.debug
  /\ ~IsInvariantFunc(call.func)
  /\ "function_value_right" \in evaluated
  /\ status = "failed"
  /\ error.error = "InvalidArgumentError"

\* C5: in hessian_vector_product with debug=True the session never has the
\* result of the first tf.gradients before it has run the assert, and a run the
\* assert fails returns no tangent vector.
C5_AssertBeforeFirstGradient ==
  (call.op = "hessian_vector_product" /\ call.debug) =>
     /\ "cores_grad" \in evaluated => "assert_op" \in evaluated
     /\ status = "failed" => result = NoTensors

\* The Euclidean gradient <x, t> * t of 0.5 * <x, t>**2 at the point x
EuclideanGrad(func, x) == Scale(func.t, Inner(Full(x), func.t))

\* C9: for func = 0.5 * <x, t>**2, gradients(func, x) (debug left at its
\* default, True) returns project(<x, t> * t, x).
C9_ClosedFormGradient ==
  ( /\ call.op = "gradients"
    /\ call.debug
    /\ call.func.kind = "half_sq_inner"
    /\ Finished )
  => /\ status = "returned"
     /\ result = project(EuclideanGrad(call.func, call.x), call.x)

\* What a call comes to when nothing was called before it.
OutcomeOf(c) ==
  LET b == BuildGraph(c, 0)
  IN  IF b.error # NoError
        THEN [status |-> "raised", result |-> NoTensors, error |-> b.error]
        ELSE SessionOutcome(b.ops, b.tensors)

\* C10: the warnings printed are as many as the calls made with debug=True
\* (a call whose check fails included, a call with debug=False adding none),
\* and a finished call came to what its arguments alone determine, whatever
\* was called before it.
C10_OneAdvisoryPerDebugCall ==
  /\ advisories = debug_calls
  /\ Finished => [status |-> status, result |-> result, error |-> error] = OutcomeOf(call)

\* Two calls with debug=True were made, the second one's check failed, and two
\* warnings were printed.
C10_TwoDebugCallsTwoAdvisories ==
  /\ calls = 2
  /\ debug_calls = 2
  /\ advisories = 2
  /\ status = "failed"

\* ---- gradients with and without debug (SpecEq)

\* C6: for an invariant func, gradients with debug=True and with debug=False
\* both return, and return the same tangent vector.
C6_DebugEquivalence ==
  (IsInvariantFunc(experiment.func) /\ {"debug", "nodebug"} \subseteq DOMAIN log) =>
     /\ log["debug"].status = "returned"
     /\ log["nodebug"].status = "returned"
     /\ log["debug"].result = log["nodebug"].result

\* ---- the gauge projector (SpecGauge)

GaugeQ(i) == ReshapeRows(g_left[i], Last(g_left[i].shape))

\* Q_i^T * delta_i for the deltas ds
GaugeDefect(ds, i) == MatMul(Transpose(GaugeQ(i)), ReshapeRows(ds[i], Last(g_left[i].shape)))

\* C7: for a left-orthogonal left and any raw deltas, the deltas that
\* _enforce_gauge_conditions returns satisfy Q_i^T * delta_i' = 0 for every
\* core but the last, the last delta is the input's, and there is one output
\* per core, of the shape of the input.
C7_GaugeOrthogonality ==
  (g_proj_deltas # <<>>) =>
     /\ Len(g_proj_deltas) = Len(g_deltas)
     /\ \A i \in 1..Len(g_left) :
          /\ g_proj_deltas[i].shape = g_deltas[i].shape
          /\ Len(g_proj_deltas[i].data) = Len(g_deltas[i].data)
          /\ i < Len(g_left) => IsZero(GaugeDefect(g_proj_deltas, i))
          /\ i = Len(g_left) => g_proj_deltas[i] = g_deltas[i]

\* The projector ran on three cores whose first two raw deltas both had a
\* component along Q, and on a last delta that is not zero.
C7_ProjectedNonTrivialDeltas ==
  /\ g_proj_deltas # <<>>
  /\ Len(g_left) = 3
  /\ ~IsZero(GaugeDefect(g_deltas, 1))
  /\ ~IsZero(GaugeDefect(g_deltas, 2))
  /\ ~IsZero(g_deltas[3])
  /\ g_proj_deltas[1] # g_deltas[1]

\* ---- linearity of hessian_vector_product (SpecLin)

LinDone == {"v1", "v2", "combination"} \subseteq DOMAIN log

\* a * r1 + b * r2 for tangent vectors at the same point, as full arrays
LinearCombination(r1, r2, a, b) == Plus(Scale(Full(r1), a), Scale(Full(r2), b))

====
